---- MODULE Spec2Model ----
(***************************************************************************)
(* todogotchi server: the ownership graph User -> Folder -> Note -> Task   *)
(* and User -> Pet kept by the Express controllers, and the pet leveling   *)
(* loop of updatePet.                                                      *)
(*                                                                         *)
(* Every controller is an async function: it runs synchronously up to an   *)
(* await, and resumes when the awaited store operation has completed.      *)
(* A request is therefore a record with a program position (pc); one       *)
(* action starts a handler (its synchronous prefix, up to the first        *)
(* await) and one action resumes it after the await it is parked on.       *)
(* Every store operation (findById, save, findByIdAndUpdate, deleteOne)    *)
(* is atomic on one document.                                              *)
(***************************************************************************)
EXTENDS Integers, Sequences, FiniteSets, TLC

(***************************************************************************)
(* Bounds of the model.                                                    *)
(***************************************************************************)
MaxFolders == 3      \* folder ids 1..MaxFolders (folder 1 is in the store at start)
SeedNotes  == 1      \* notes in the store at start
SeedTasks  == 2      \* tasks in the store at start
MaxPets    == 2      \* pet ids 1..MaxPets
MaxLevel   == 8      \* no further point award once a pet is at this level
MaxDebt    == 1000   \* no further deduction once a pet's points are below -MaxDebt
MaxAwardLevel == 2   \* overlapping awards: none starts once the pet is above this level

(***************************************************************************)
(* IEEE-754 doubles.  pet.points and every intermediate of the leveling    *)
(* loop is a JavaScript number.  Every value the loop produces from        *)
(* integer points is a multiple of 2^-44 (the unit in the last place of    *)
(* 100 * 2^1.5), so a number is written <<i, h, l>> and stands for         *)
(*      i + (h * 2^22 + l) / 2^44      with 0 <= h, l < 2^22               *)
(* (i is the floor, also for negative values).  An addition is the exact   *)
(* sum rounded to 53 significant bits, ties to even, as the hardware does. *)
(***************************************************************************)
Limb == 2^22

Zero == <<0, 0, 0>>

FromInt(n) == <<n, 0, 0>>

AddExact(a, b) ==
  LET l == a[3] + b[3]
      h == a[2] + b[2] + (l \div Limb)
  IN  <<a[1] + b[1] + (h \div Limb), h % Limb, l % Limb>>

Neg(a) ==
  IF a[2] = 0 /\ a[3] = 0 THEN <<0 - a[1], 0, 0>>
  ELSE IF a[3] = 0 THEN <<0 - a[1] - 1, Limb - a[2], 0>>
  ELSE <<0 - a[1] - 1, Limb - 1 - a[2], Limb - a[3]>>

Lt(a, b) ==
  \/ a[1] < b[1]
  \/ a[1] = b[1] /\ a[2] < b[2]
  \/ a[1] = b[1] /\ a[2] = b[2] /\ a[3] < b[3]

Ge(a, b) == ~Lt(a, b)

\* |a| >= n, for an integer n > 0
AbsGe(a, n) ==
  a[1] >= n \/ a[1] < 0 - n \/ (a[1] = 0 - n /\ a[2] = 0 /\ a[3] = 0)

\* A double of magnitude in [2^j, 2^(j+1)) has its last bit at 2^(j-52): with
\* the unit 2^-44, one low bit is dropped from 2^9 on, two from 2^10 on, ...
DropBits(a) == Cardinality({j \in 9..20 : AbsGe(a, 2^j)})

RoundDouble(a) ==
  LET m    == 2^DropBits(a)
      r    == a[3] % m
      base == a[3] - r
      up   == 2 * r > m \/ (2 * r = m /\ (base \div m) % 2 = 1)
  IN  IF r = 0 THEN a
      ELSE IF up THEN AddExact(<<a[1], a[2], base>>, <<0, 0, m>>)
      ELSE <<a[1], a[2], base>>

Add(a, b) == RoundDouble(AddExact(a, b))

Sub(a, b) == RoundDouble(AddExact(a, Neg(b)))

(***************************************************************************)
(* The leveling loop of updatePet.                                         *)
(***************************************************************************)
BASE_EXP == 100

\* BASE_EXP * Math.pow(level, 1.5) as the double it evaluates to, levels 1..12:
\* 100, 282.842712474619, 519.6152422706632, 800, 1118.033988749895,
\* 1469.693845669907, 1852.0259177452135, 2262.741699796952, 2700,
\* 3162.277660168379, 3648.28726939094, 4156.921938165306.
RequiredExpTable ==
  << <<BASE_EXP, 0, 0>>, <<282, 3534592, 1271480>>, <<519, 2580513, 489944>>,
     <<800, 0, 0>>, <<1118, 142559, 627632>>, <<1469, 2910199, 2804620>>,
     <<1852, 108706, 3785024>>, <<2262, 3110914, 1783232>>, <<2700, 0, 0>>,
     <<3162, 1164591, 649584>>, <<3648, 1204895, 652200>>,
     <<4156, 3866888, 3919552>> >>

calculateRequiredExp(level) == RequiredExpTable[level]

\* while (totalExp >= maxExp) { totalExp -= maxExp; newLevel += 1; maxExp = ... }
RECURSIVE LevelUp(_, _)
LevelUp(totalExp, newLevel) ==
  IF Ge(totalExp, calculateRequiredExp(newLevel))
  THEN LevelUp(Sub(totalExp, calculateRequiredExp(newLevel)), newLevel + 1)
  ELSE <<totalExp, newLevel>>

\* while (totalExp < 0 && newLevel > 1) { newLevel -= 1; maxExp = ...; totalExp += maxExp; }
RECURSIVE LevelDown(_, _)
LevelDown(totalExp, newLevel) ==
  IF Lt(totalExp, Zero) /\ newLevel > 1
  THEN LevelDown(Add(totalExp, calculateRequiredExp(newLevel - 1)), newLevel - 1)
  ELSE <<totalExp, newLevel>>

\* The new [level, points] of a pet at (level, points) for updates.points = delta.
applyPoints(level, points, delta) ==
  LET up == LevelUp(Add(points, FromInt(delta)), level)
      dn == LevelDown(up[1], up[2])
  IN  [level |-> dn[2], points |-> dn[1]]

(***************************************************************************)
(* Task documents.                                                         *)
(***************************************************************************)
pointsMapping == [easy |-> 250, medium |-> 500, hard |-> 1000]

CategoryEnum == {"easy", "medium", "hard"}

StatusEnum == {"pending", "completed", "overdue"}

\* A path that was not given, or a findById that found nothing.
NoUser == ""

NoDoc == [none |-> TRUE]

\* The paths TaskSchema requires, and its enums: what task.save() validates.
TaskValidates(doc) ==
  /\ doc.user # NoUser
  /\ doc.name # ""
  /\ doc.status \in StatusEnum
  /\ doc.category \in CategoryEnum

\* Pull with the $pull given another id than the task's ({tasks: this.note}):
\* nothing leaves the array.
Pull_OtherId(list, id) == list

\* Pull written as tasks.splice(tasks.indexOf(id), 1): for an id that is not in
\* the array indexOf is -1, and splice(-1, 1) takes the last element out.
Pull_Splice(list, id) ==
  IF \E i \in 1..Len(list) : list[i] = id
  THEN SelectSeq(list, LAMBDA x : x # id)
  ELSE SubSeq(list, 1, Len(list) - 1)

\* $pull: every occurrence of id leaves the array, the rest keeps its order.
Pull(list, id) == SelectSeq(list, LAMBDA x : x # id)

Range(list) == {list[i] : i \in 1..Len(list)}

Without(f, x) == [y \in DOMAIN f \ {x} |-> f[y]]

With(f, x, v) == [y \in DOMAIN f \cup {x} |-> IF y = x THEN v ELSE f[y]]

(***************************************************************************)
(* State.                                                                  *)
(***************************************************************************)
VARIABLES
  users,        \* user id -> [folders, pets]: the User documents
  folders,      \* folder id -> [user, name, notes]: the Folder documents
  notes,        \* note id -> [folder, tasks]: the Note documents
  tasks,        \* task id -> [user, note, name, status, category, points]
  pets,         \* pet id -> [user, name, type, level, points]
  fresh,        \* the next unused id of each collection (ObjectIds are never reused)
  rq,           \* slot -> the request a handler is serving there
  last,         \* the request that completed last, with the store it started on
                \* and the requests that overlapped it
  petLog,       \* the last two leveling transformations saved by updatePet
  cleanUpdates  \* no updateTask payload so far broke the category/points rule

vars == <<users, folders, notes, tasks, pets, fresh, rq, last, petLog, cleanUpdates>>

store == <<users, folders, notes, tasks, pets, fresh>>

Store == [users |-> users, folders |-> folders, notes |-> notes, tasks |-> tasks,
          pets |-> pets]

Slots == {1, 2}

UserIds == {"u1", "u0"}     \* u1 is registered, u0 is not

NoBody == [none |-> TRUE]

Idle == [op |-> "idle", pc |-> "idle", id |-> 0, body |-> NoBody, doc |-> NoDoc,
         codes |-> <<>>, pre |-> NoDoc, peers |-> {}]

NoLast == [op |-> "none", id |-> 0, body |-> NoBody, doc |-> NoDoc, codes |-> <<>>,
           pre |-> NoDoc, peers |-> {}]

\* The note a task in the store at start belongs to.
SeedNoteOf(t) == ((t - 1) % SeedNotes) + 1

SeedTaskList(n) ==
  LET RECURSIVE Upto(_)
      Upto(t) == IF t = 0 THEN <<>>
                 ELSE IF SeedNoteOf(t) = n THEN Append(Upto(t - 1), t)
                 ELSE Upto(t - 1)
  IN  Upto(SeedTasks)

\* What new Pet({user, name, type}) holds: level and points take their defaults.
NewPet(userId, name, type) ==
  [user |-> userId, name |-> name, type |-> type, level |-> 1, points |-> Zero]

\* The store the server runs on: one registered user with one folder, its
\* notes, and their tasks, every document valid under its schema and every
\* child list in agreement with the children's parent references; the user
\* has created nPets pets, none of which has been awarded points.
InitWith(nPets) ==
  /\ users = [u \in {"u1"} |-> [folders |-> <<1>>, pets |-> [p \in 1..nPets |-> p]]]
  /\ folders = [f \in {1} |->
                  [user |-> "u1", name |-> "inbox",
                   notes |-> [n \in 1..SeedNotes |-> n]]]
  /\ notes = [n \in 1..SeedNotes |-> [folder |-> 1, tasks |-> SeedTaskList(n)]]
  /\ tasks = [t \in 1..SeedTasks |->
                [user |-> "u1", note |-> SeedNoteOf(t), name |-> "todo",
                 status |-> "pending", category |-> "easy",
                 points |-> pointsMapping["easy"]]]
  /\ pets = [p \in 1..nPets |-> NewPet("u1", "rex", "cat")]
  /\ fresh = [folder |-> 2, task |-> SeedTasks + 1, pet |-> nPets + 1]
  /\ rq = [s \in Slots |-> Idle]
  /\ last = NoLast
  /\ petLog = <<>>
  /\ cleanUpdates = TRUE

Init == InitWith(0)

\* The leveling specification starts from an account whose pet exists.
InitLevel == InitWith(1)

(***************************************************************************)
(* Requests.                                                               *)
(***************************************************************************)
\* The requests other handlers are serving while slot s starts one: the
\* requests that overlap it (peers: every request that was in flight at some
\* time while this one was).
InFlight(s) ==
  {[op |-> rq[o].op, id |-> rq[o].id, body |-> rq[o].body] :
     o \in {t \in Slots \ {s} : rq[t].op # "idle"}}

\* A handler starts: it is parked on its first await, at pc.
Begin(s, op, pc, id, body) ==
  /\ rq[s].op = "idle"
  /\ rq' = [t \in Slots |->
              IF t = s
              THEN [op |-> op, pc |-> pc, id |-> id, body |-> body,
                    doc |-> NoDoc, codes |-> <<>>, pre |-> Store,
                    peers |-> InFlight(s)]
              ELSE IF rq[t].op # "idle"
              THEN [rq[t] EXCEPT !.peers = @ \cup {[op |-> op, id |-> id, body |-> body]}]
              ELSE rq[t]]
  /\ last' = NoLast

\* A handler rejects the request in its synchronous prefix.
Reject(s, op, id, body, code) ==
  /\ rq[s].op = "idle"
  /\ rq' = rq
  /\ last' = [op |-> op, id |-> id, body |-> body, doc |-> NoDoc,
              codes |-> <<code>>, pre |-> Store, peers |-> InFlight(s)]

\* The handler moves to its next await.
Goto(s, pc, doc) ==
  /\ rq' = [rq EXCEPT ![s].pc = pc, ![s].doc = doc]
  /\ last' = last

\* res.status(code).json(...) and the handler goes on, to its next await.
Send(s, code, pc, doc) ==
  /\ rq' = [rq EXCEPT ![s].pc = pc, ![s].doc = doc, ![s].codes = Append(@, code)]
  /\ last' = last

\* The handler returns after the calls res.status(c).json(...) for c in codes.
Finish(s, codes) ==
  /\ rq' = [rq EXCEPT ![s] = Idle]
  /\ last' = [op |-> rq[s].op, id |-> rq[s].id, body |-> rq[s].body,
              doc |-> rq[s].doc, codes |-> rq[s].codes \o codes,
              pre |-> rq[s].pre, peers |-> rq[s].peers]

\* res.status(code).json(...): the handler returns.
Respond(s, code) == Finish(s, <<code>>)

\* One request at a time: a handler starts when no other is in flight.
Serial == \A s \in Slots : rq[s].op = "idle"

(***************************************************************************)
(* createPet (POST /pets/:userId).                                         *)
(***************************************************************************)
createPetStart(s, userId, name, type) ==
  LET body == [name |-> name, type |-> type] IN
  /\ fresh.pet <= MaxPets
  /\ IF name = "" \/ type = ""
     THEN Reject(s, "createPet", userId, body, 400)
     ELSE Begin(s, "createPet", "findUser", userId, body)
  /\ UNCHANGED <<store, petLog, cleanUpdates>>

createPetStep(s) ==
  LET r == rq[s] IN
  /\ r.op = "createPet"
  /\ CASE r.pc = "findUser" ->     \* const user = await User.findById(userId)
            /\ IF r.id \in DOMAIN users
               THEN Goto(s, "savePet", NoDoc)
               ELSE Respond(s, 404)
            /\ UNCHANGED store
       [] r.pc = "savePet" ->      \* const savedPet = await pet.save()
            /\ pets' = With(pets, fresh.pet, NewPet(r.id, r.body.name, r.body.type))
            /\ fresh' = [fresh EXCEPT !.pet = @ + 1]
            /\ Goto(s, "saveUser", [petId |-> fresh.pet])
            /\ UNCHANGED <<users, folders, notes, tasks>>
       [] r.pc = "saveUser" ->     \* user.pets.push(pet._id); await user.save()
            /\ users' = [users EXCEPT ![r.id].pets = Append(@, r.doc.petId)]
            /\ Respond(s, 201)
            /\ UNCHANGED <<folders, notes, tasks, pets, fresh>>
  /\ UNCHANGED <<petLog, cleanUpdates>>

(***************************************************************************)
(* updatePet (PATCH /pets/:petId).                                         *)
(***************************************************************************)
\* The point deltas a client sends: the task rewards of pointsMapping, given or
\* taken back, and no change.
Deltas == {0 - 1000, 0 - 500, 0 - 250, 0, 250, 500, 1000}

\* req.body: a points delta, or a new name without points.
PetUpdates ==
  {[hasPoints |-> TRUE, points |-> d, name |-> ""] : d \in Deltas}
    \cup {[hasPoints |-> FALSE, points |-> 0, name |-> "tama"]}

\* The pet document after the handler's assignments, from the document it read.
updatePetAssign(pet, body) ==
  LET r == IF body.hasPoints THEN applyPoints(pet.level, pet.points, body.points)
           ELSE [level |-> pet.level, points |-> pet.points]
  IN  [pet EXCEPT !.level = r.level, !.points = r.points,
                  !.name = IF body.name # "" THEN body.name ELSE @]

\* pet.save(): the paths the handler changed are written to the stored document.
SavePet(stored, read, new) ==
  [stored EXCEPT !.level = IF new.level # read.level THEN new.level ELSE @,
                 !.points = IF new.points # read.points THEN new.points ELSE @,
                 !.name = IF new.name # read.name THEN new.name ELSE @]

updatePetStart(s, petId, body) ==
  /\ (body.hasPoints /\ petId \in DOMAIN pets) =>
        /\ body.points > 0 => pets[petId].level < MaxLevel
        /\ body.points < 0 => Ge(pets[petId].points, FromInt(0 - MaxDebt))
  /\ Begin(s, "updatePet", "findPet", petId, body)
  /\ UNCHANGED <<store, petLog, cleanUpdates>>

updatePetStep(s) ==
  LET r == rq[s] IN
  /\ r.op = "updatePet"
  /\ CASE r.pc = "findPet" ->      \* const pet = await Pet.findById(petId)
            /\ IF r.id \in DOMAIN pets
               THEN Goto(s, "savePet", pets[r.id])
               ELSE Respond(s, 404)
            /\ UNCHANGED <<store, petLog>>
       [] r.pc = "savePet" ->      \* const updatedPet = await pet.save()
            LET new == updatePetAssign(r.doc, r.body) IN
            /\ pets' = [pets EXCEPT ![r.id] = SavePet(@, r.doc, new)]
            /\ petLog' = IF r.body.hasPoints
                            THEN SubSeq(petLog, Len(petLog) + 1 - (IF petLog = <<>> THEN 0 ELSE 1), Len(petLog))
                                   \o <<[pet |-> r.id, delta |-> r.body.points,
                                         level0 |-> r.doc.level, points0 |-> r.doc.points,
                                         level1 |-> new.level, points1 |-> new.points]>>
                            ELSE petLog
            /\ Respond(s, 200)
            /\ UNCHANGED <<users, folders, notes, tasks, fresh>>
  /\ UNCHANGED cleanUpdates

NextLevel ==
  \/ \E petId \in 1..MaxPets, body \in PetUpdates :
       Serial /\ updatePetStart(1, petId, body)
  \/ updatePetStep(1)

SpecLevel == InitLevel /\ [][NextLevel]_vars

(***************************************************************************)
(* createFolder (POST /folders/:userId).                                   *)
(***************************************************************************)
createFolderStart(s, userId, name) ==
  LET body == [name |-> name] IN
  /\ fresh.folder <= MaxFolders
  /\ IF name = ""
     THEN Reject(s, "createFolder", userId, body, 400)
     ELSE Begin(s, "createFolder", "findUser", userId, body)
  /\ UNCHANGED <<store, petLog, cleanUpdates>>

createFolderStep(s) ==
  LET r == rq[s] IN
  /\ r.op = "createFolder"
  /\ CASE r.pc = "findUser" ->     \* const user = await User.findById(userId).exec()
            /\ IF r.id \in DOMAIN users
               THEN Goto(s, "saveFolder", NoDoc)
               ELSE Respond(s, 404)
            /\ UNCHANGED store
       [] r.pc = "saveFolder" ->   \* const savedFolder = await folder.save()
            /\ folders' = With(folders, fresh.folder,
                               [user |-> r.id, name |-> r.body.name, notes |-> <<>>])
            /\ fresh' = [fresh EXCEPT !.folder = @ + 1]
            /\ Goto(s, "saveUser", [folderId |-> fresh.folder])
            /\ UNCHANGED <<users, notes, tasks, pets>>
       [] r.pc = "saveUser" ->     \* user.folders.push(folder._id); await user.save()
            /\ users' = [users EXCEPT ![r.id].folders = Append(@, r.doc.folderId)]
            /\ Respond(s, 201)
            /\ UNCHANGED <<folders, notes, tasks, pets, fresh>>
  /\ UNCHANGED <<petLog, cleanUpdates>>

(***************************************************************************)
(* deleteFolder (DELETE /folders/:folderId).  folder.deleteOne() runs the  *)
(* Folder model's pre-delete hook, which is the cascade of the             *)
(* specification: every note of the folder's list goes with the tasks of   *)
(* its list, then the folder, then the folder's id leaves its user's list. *)
(***************************************************************************)
ListedNotes(st, f) == Range(st.folders[f].notes) \cap DOMAIN st.notes

ListedTasks(st, ns) ==
  UNION {Range(st.notes[n].tasks) : n \in ns} \cap DOMAIN st.tasks

\* The store after deleteSubtree(Folder, f).
deleteSubtreeFolder(st, f) ==
  LET ns == ListedNotes(st, f)
      ts == ListedTasks(st, ns)
      u  == st.folders[f].user
  IN  [st EXCEPT
         !.tasks = [t \in DOMAIN st.tasks \ ts |-> st.tasks[t]],
         !.notes = [n \in DOMAIN st.notes \ ns |-> st.notes[n]],
         !.folders = Without(st.folders, f),
         !.users = [v \in DOMAIN st.users |->
                      IF v = u THEN [st.users[v] EXCEPT !.folders = Pull(@, f)]
                      ELSE st.users[v]]]

deleteFolderStart(s, folderId) ==
  /\ Begin(s, "deleteFolder", "findFolder", folderId, NoBody)
  /\ UNCHANGED <<store, petLog, cleanUpdates>>

\* deleteFolderStep without the await folder.deleteOne(): 200 for a folder that
\* is still there.
deleteFolderStep_NoDeleteOne(s) ==
  LET r == rq[s] IN
  /\ r.op = "deleteFolder"
  /\ CASE r.pc = "findFolder" ->
            /\ IF r.id \in DOMAIN folders
               THEN Goto(s, "deleteOne", folders[r.id])
               ELSE Respond(s, 404)
            /\ UNCHANGED store
       [] r.pc = "deleteOne" ->
            /\ Respond(s, 200)
            /\ UNCHANGED store
  /\ UNCHANGED <<petLog, cleanUpdates>>

deleteFolderStep(s) ==
  LET r == rq[s] IN
  /\ r.op = "deleteFolder"
  /\ CASE r.pc = "findFolder" ->   \* const folder = await Folder.findById(folderId).exec()
            /\ IF r.id \in DOMAIN folders
               THEN Goto(s, "deleteOne", folders[r.id])
               ELSE Respond(s, 404)
            /\ UNCHANGED store
       [] r.pc = "deleteOne" ->    \* await folder.deleteOne(); res.status(200).json()
            LET after == IF r.id \in DOMAIN folders
                         THEN deleteSubtreeFolder(Store, r.id) ELSE Store IN
            /\ users' = after.users
            /\ folders' = after.folders
            /\ notes' = after.notes
            /\ tasks' = after.tasks
            /\ Respond(s, 200)
            /\ UNCHANGED <<pets, fresh>>
  /\ UNCHANGED <<petLog, cleanUpdates>>

(***************************************************************************)
(* createTask (POST /tasks/:noteId).                                       *)
(***************************************************************************)
\* new Task({note, name, creationDate, status, category, points}): the handler
\* gives no user.
NewTask(noteId, name) ==
  [user |-> NoUser, note |-> noteId, name |-> name, status |-> "pending",
   category |-> "easy", points |-> pointsMapping["easy"]]

createTaskStart(s, noteId, name) ==
  LET body == [name |-> name] IN
  /\ IF name = ""
     THEN Reject(s, "createTask", noteId, body, 400)
     ELSE Begin(s, "createTask", "findNote", noteId, body)
  /\ UNCHANGED <<store, petLog, cleanUpdates>>

createTaskStep(s) ==
  LET r == rq[s] IN
  /\ r.op = "createTask"
  /\ CASE r.pc = "findNote" ->     \* const note = await Note.findById(noteId).exec()
            /\ IF r.id \in DOMAIN notes
               THEN Goto(s, "saveTask", NoDoc)
               ELSE Respond(s, 404)
            /\ UNCHANGED store
       [] r.pc = "saveTask" ->     \* const savedTask = await task.save()
            IF TaskValidates(NewTask(r.id, r.body.name))
            THEN /\ tasks' = With(tasks, fresh.task, NewTask(r.id, r.body.name))
                 /\ fresh' = [fresh EXCEPT !.task = @ + 1]
                 /\ Goto(s, "saveNote", [taskId |-> fresh.task])
                 /\ UNCHANGED <<users, folders, notes, pets>>
            ELSE \* ValidationError: caught, res.status(500)
                 /\ Respond(s, 500)
                 /\ UNCHANGED store
       [] r.pc = "saveNote" ->     \* note.tasks.push(task._id); await note.save()
            IF r.id \in DOMAIN notes
            THEN /\ notes' = [notes EXCEPT ![r.id].tasks = Append(@, r.doc.taskId)]
                 /\ Respond(s, 201)
                 /\ UNCHANGED <<users, folders, tasks, pets, fresh>>
            ELSE /\ Respond(s, 500)
                 /\ UNCHANGED store
  /\ UNCHANGED <<petLog, cleanUpdates>>

(***************************************************************************)
(* deleteTask (DELETE /tasks/:taskId) and the pre-deleteOne hook of        *)
(* TaskSchema.                                                             *)
(***************************************************************************)
deleteTaskStart(s, taskId) ==
  /\ Begin(s, "deleteTask", "findTask", taskId, NoBody)
  /\ UNCHANGED <<store, petLog, cleanUpdates>>

\* deleteTaskStep with the hook registered as a post hook: the document is
\* deleted first, the note's list is pulled afterwards.
deleteTaskStep_PostHook(s) ==
  LET r == rq[s] IN
  /\ r.op = "deleteTask"
  /\ CASE r.pc = "findTask" ->
            /\ IF r.id \in DOMAIN tasks
               THEN Goto(s, "preDeleteOne", tasks[r.id])
               ELSE Respond(s, 404)
            /\ UNCHANGED store
       [] r.pc = "preDeleteOne" ->
            /\ tasks' = Without(tasks, r.id)
            /\ Goto(s, "deleteOne", r.doc)
            /\ UNCHANGED <<users, folders, notes, pets, fresh>>
       [] r.pc = "deleteOne" ->
            IF r.doc.note \in DOMAIN notes
            THEN /\ notes' = [notes EXCEPT ![r.doc.note].tasks = Pull(@, r.id)]
                 /\ Respond(s, 200)
                 /\ UNCHANGED <<users, folders, tasks, pets, fresh>>
            ELSE /\ Respond(s, 500)
                 /\ UNCHANGED store
  /\ UNCHANGED <<petLog, cleanUpdates>>

\* deleteTaskStep with a hook that does not read note.tasks after the
\* findByIdAndUpdate: a note that is not found raises nothing, next() is called
\* and the document is deleted.
deleteTaskStep_QuietHook(s) ==
  LET r == rq[s] IN
  /\ r.op = "deleteTask"
  /\ CASE r.pc = "findTask" ->
            /\ IF r.id \in DOMAIN tasks
               THEN Goto(s, "preDeleteOne", tasks[r.id])
               ELSE Respond(s, 404)
            /\ UNCHANGED store
       [] r.pc = "preDeleteOne" ->
            /\ notes' = IF r.doc.note \in DOMAIN notes
                          THEN [notes EXCEPT ![r.doc.note].tasks = Pull(@, r.id)]
                          ELSE notes
            /\ Goto(s, "deleteOne", r.doc)
            /\ UNCHANGED <<users, folders, tasks, pets, fresh>>
       [] r.pc = "deleteOne" ->
            /\ tasks' = Without(tasks, r.id)
            /\ Respond(s, 200)
            /\ UNCHANGED <<users, folders, notes, pets, fresh>>
  /\ UNCHANGED <<petLog, cleanUpdates>>

deleteTaskStep(s) ==
  LET r == rq[s] IN
  /\ r.op = "deleteTask"
  /\ CASE r.pc = "findTask" ->     \* const task = await Task.findById(taskId).exec()
            /\ IF r.id \in DOMAIN tasks
               THEN Goto(s, "preDeleteOne", tasks[r.id])
               ELSE Respond(s, 404)
            /\ UNCHANGED store
       [] r.pc = "preDeleteOne" -> \* await Note.findByIdAndUpdate(this.note, {$pull})
            IF r.doc.note \in DOMAIN notes
            THEN /\ notes' = [notes EXCEPT ![r.doc.note].tasks = Pull(@, r.id)]
                 /\ Goto(s, "deleteOne", r.doc)
                 /\ UNCHANGED <<users, folders, tasks, pets, fresh>>
            ELSE \* note is null: note.tasks throws, next(error), res.status(500)
                 /\ Respond(s, 500)
                 /\ UNCHANGED store
       [] r.pc = "deleteOne" ->    \* the document is deleted; res.status(200).json()
            /\ tasks' = Without(tasks, r.id)
            /\ Respond(s, 200)
            /\ UNCHANGED <<users, folders, notes, pets, fresh>>
  /\ UNCHANGED <<petLog, cleanUpdates>>

(***************************************************************************)
(* updateTask (PATCH /tasks/:taskId).                                      *)
(***************************************************************************)
\* req.body: a category (or none, ""), and a points value (or none).  The other
\* paths of a payload are written as they come and are not read here.
TaskUpdates ==
  [category : {"", "easy", "medium", "hard", "urgent"},
   hasPoints : BOOLEAN, points : {777}]

\* if (taskData.category && taskData.category !== oldTask.category)
CategoryChanges(taskData, oldTask) ==
  taskData.category # "" /\ taskData.category # oldTask.category

\* updateTaskData that derives the points only when the payload gives none
\* (if (... && taskData.points === undefined)).
updateTaskData_KeepGiven(taskData, oldTask) ==
  IF CategoryChanges(taskData, oldTask) /\ ~taskData.hasPoints
  THEN IF taskData.category \in DOMAIN pointsMapping
       THEN [taskData EXCEPT !.hasPoints = TRUE,
                             !.points = pointsMapping[taskData.category]]
       ELSE [taskData EXCEPT !.hasPoints = FALSE]
  ELSE taskData

\* taskData after the handler's assignment: a changed category sets
\* taskData.points = pointsMapping[taskData.category], which is undefined for a
\* category that is no key of the mapping.
updateTaskData(taskData, oldTask) ==
  IF CategoryChanges(taskData, oldTask)
  THEN IF taskData.category \in DOMAIN pointsMapping
       THEN [taskData EXCEPT !.hasPoints = TRUE,
                             !.points = pointsMapping[taskData.category]]
       ELSE [taskData EXCEPT !.hasPoints = FALSE]
  ELSE taskData

\* req.body with a note path: the payload is written as it comes, so a client
\* can give a task another note id, of a note in the store or not.
TaskMoves ==
  {[category |-> "", hasPoints |-> FALSE, points |-> 777, note |-> n] :
     n \in 1..SeedNotes + 1}

\* Task.findByIdAndUpdate(taskId, taskData): the paths given are set, without
\* validation; an undefined path is not written.
ApplyTaskData(task, taskData) ==
  [task EXCEPT !.category = IF taskData.category # "" THEN taskData.category ELSE @,
               !.points = IF taskData.hasPoints THEN taskData.points ELSE @,
               !.note = IF "note" \in DOMAIN taskData THEN taskData.note ELSE @]

\* The payload keeps to the rule: its category, if any, is one of the enum, and
\* it gives points only together with a changed category.
PayloadInRule(taskData, oldTask) ==
  /\ taskData.category \in CategoryEnum \cup {""}
  /\ taskData.hasPoints => CategoryChanges(taskData, oldTask)

updateTaskStart(s, taskId, body) ==
  /\ Begin(s, "updateTask", "findTask", taskId, body)
  /\ UNCHANGED <<store, petLog, cleanUpdates>>

updateTaskStep(s) ==
  LET r == rq[s] IN
  /\ r.op = "updateTask"
  /\ CASE r.pc = "findTask" ->     \* const oldTask = await Task.findById(taskId).exec()
            /\ IF r.id \in DOMAIN tasks
               THEN /\ Goto(s, "findByIdAndUpdate",
                            [oldTask |-> tasks[r.id],
                             taskData |-> updateTaskData(r.body, tasks[r.id])])
                    /\ cleanUpdates' = (cleanUpdates /\ PayloadInRule(r.body, tasks[r.id]))
               ELSE \* res.status(404) without return: the handler goes on
                    /\ IF r.body.category # ""
                       THEN \* oldTask.category throws on null: caught, res.status(500)
                            Finish(s, <<404, 500>>)
                       ELSE Send(s, 404, "findByIdAndUpdate",
                                 [oldTask |-> NoDoc, taskData |-> r.body])
                    /\ cleanUpdates' = cleanUpdates
            /\ UNCHANGED store
       [] r.pc = "findByIdAndUpdate" ->  \* await Task.findByIdAndUpdate(...); res.status(200)
            /\ tasks' = IF r.id \in DOMAIN tasks
                          THEN [tasks EXCEPT ![r.id] = ApplyTaskData(@, r.doc.taskData)]
                          ELSE tasks
            /\ IF r.codes = <<>>
               THEN Respond(s, 200)
               ELSE \* the 404 was sent: res.status(200).json() throws (headers
                    \* sent), caught, res.status(500).json()
                    Finish(s, <<200, 500>>)
            /\ UNCHANGED <<users, folders, notes, pets, fresh, cleanUpdates>>
  /\ UNCHANGED petLog

(***************************************************************************)
(* Specifications: one request at a time, each handler step by step.       *)
(***************************************************************************)
Names == {"", "groceries"}

\* The ownership graph: folders and tasks are created and deleted.
Next ==
  \/ \E userId \in UserIds, name \in Names :
       Serial /\ createFolderStart(1, userId, name)
  \/ createFolderStep(1)
  \/ \E folderId \in 1..MaxFolders : Serial /\ deleteFolderStart(1, folderId)
  \/ deleteFolderStep(1)
  \/ \E noteId \in 1..SeedNotes + 1, name \in Names :
       Serial /\ createTaskStart(1, noteId, name)
  \/ createTaskStep(1)
  \/ \E taskId \in 1..SeedTasks + 1 : Serial /\ deleteTaskStart(1, taskId)
  \/ deleteTaskStep(1)

Spec == Init /\ [][Next]_vars

\* The task documents: tasks are created and updated.
NextTasks ==
  \/ \E noteId \in 1..SeedNotes + 1, name \in Names :
       Serial /\ createTaskStart(1, noteId, name)
  \/ createTaskStep(1)
  \/ \E taskId \in 1..SeedTasks + 1, body \in TaskUpdates :
       Serial /\ updateTaskStart(1, taskId, body)
  \/ updateTaskStep(1)

SpecTasks == Init /\ [][NextTasks]_vars

\* The account: what a user owns directly, folders and pets.
NextAcct ==
  \/ \E userId \in UserIds, name \in {"", "rex"}, type \in {"", "cat"} :
       Serial /\ createPetStart(1, userId, name, type)
  \/ createPetStep(1)
  \/ \E userId \in UserIds, name \in Names :
       Serial /\ createFolderStart(1, userId, name)
  \/ createFolderStep(1)

SpecAcct == Init /\ [][NextAcct]_vars

\* Tasks whose note path is rewritten by updateTask, and deleted.
NextOrphan ==
  \/ \E taskId \in 1..SeedTasks + 1, body \in TaskMoves :
       Serial /\ updateTaskStart(1, taskId, body)
  \/ updateTaskStep(1)
  \/ \E taskId \in 1..SeedTasks + 1 : Serial /\ deleteTaskStart(1, taskId)
  \/ deleteTaskStep(1)

SpecOrphan == Init /\ [][NextOrphan]_vars

(***************************************************************************)
(* Specifications with two handlers in flight: the steps of two requests   *)
(* interleave in every order, each store operation being one step.         *)
(***************************************************************************)
\* deleteTask requests, for the same task or for different ones.
NextDelete ==
  \/ \E s \in Slots, taskId \in 1..SeedTasks + 1 : deleteTaskStart(s, taskId)
  \/ \E s \in Slots : deleteTaskStep(s)

SpecDelete == Init /\ [][NextDelete]_vars

\* The point awards of two tasks completed at about the same time.
Awards == {[hasPoints |-> TRUE, points |-> d, name |-> ""] : d \in {250, 500}}

\* updatePet requests for the account's pet.
NextAward ==
  \/ \E s \in Slots, petId \in 1..MaxPets, body \in Awards :
       /\ petId \in DOMAIN pets => pets[petId].level <= MaxAwardLevel
       /\ updatePetStart(s, petId, body)
  \/ \E s \in Slots : updatePetStep(s)

SpecAward == InitLevel /\ [][NextAward]_vars

(***************************************************************************)
(* Ownership claims.                                                       *)
(***************************************************************************)
\* The notes whose folder is f, and the tasks whose note is one of them.
OwnedNotes(st, f) == {n \in DOMAIN st.notes : st.notes[n].folder = f}

OwnedTasks(st, f) == {t \in DOMAIN st.tasks : st.tasks[t].note \in OwnedNotes(st, f)}

\* C3: after deleteFolder(F) answered 200, F is gone, no note or task that F
\* owned (directly or through a note) when the request started is in the
\* store, and no user's folder list holds F.
C3_CascadeComplete ==
  (last.op = "deleteFolder" /\ last.codes = <<200>>) =>
    /\ last.id \notin DOMAIN folders
    /\ OwnedNotes(last.pre, last.id) \cap DOMAIN notes = {}
    /\ OwnedTasks(last.pre, last.id) \cap DOMAIN tasks = {}
    /\ \A u \in DOMAIN users : last.id \notin Range(users[u].folders)

\* A folder that owned notes with tasks, and was in its user's list, was deleted.
C3_Witness ==
  /\ last.op = "deleteFolder" /\ last.codes = <<200>>
  /\ OwnedNotes(last.pre, last.id) # {}
  /\ OwnedTasks(last.pre, last.id) # {}
  /\ last.id \in Range(last.pre.users[last.pre.folders[last.id].user].folders)

\* C4: after deleteTask(T) answered 200 for a task T that was in the store with
\* its note, T is gone and the note's task list is the list it was without T:
\* every other id is where it was.
C4_DeleteTaskDetaches ==
  (/\ last.op = "deleteTask" /\ last.codes = <<200>>
   /\ last.id \in DOMAIN last.pre.tasks
   /\ last.pre.tasks[last.id].note \in DOMAIN last.pre.notes) =>
    LET n   == last.pre.tasks[last.id].note
        old == last.pre.notes[n].tasks
    IN  /\ last.id \notin DOMAIN tasks
        /\ n \in DOMAIN notes
        /\ last.id \notin Range(notes[n].tasks)
        /\ notes[n].tasks = SelectSeq(old, LAMBDA x : x # last.id)

\* A task was deleted from a note that lists another task as well.
C4_Witness ==
  /\ last.op = "deleteTask" /\ last.codes = <<200>>
  /\ last.id \in DOMAIN last.pre.tasks
  /\ last.pre.tasks[last.id].note \in DOMAIN last.pre.notes
  /\ Len(last.pre.notes[last.pre.tasks[last.id].note].tasks) >= 2
  /\ last.id \in Range(last.pre.notes[last.pre.tasks[last.id].note].tasks)

C6_AtMostOnePet ==
  \A u \in DOMAIN users : Len(users[u].pets) <= 1

\* C7: as long as every update payload kept to the rule (a category of the
\* enum if any, points only with a changed category), every task in the store
\* has the points its category maps to.
C7_PointsFollowCategory ==
  cleanUpdates =>
    \A t \in DOMAIN tasks :
      /\ tasks[t].category \in DOMAIN pointsMapping
      /\ tasks[t].points = pointsMapping[tasks[t].category]

\* An update changed a task's category to hard with a payload whose points
\* were not the mapped value, and the task was stored with the mapped value.
C7_Witness ==
  /\ cleanUpdates
  /\ last.op = "updateTask" /\ last.codes = <<200>>
  /\ last.id \in DOMAIN tasks
  /\ last.body.category = "hard"
  /\ last.doc.oldTask.category # "hard"
  /\ last.body.hasPoints
  /\ last.body.points # pointsMapping["hard"]
  /\ tasks[last.id].points = pointsMapping["hard"]

\* C8: createTask with a name and the id of a note in the store answers 201,
\* stores a new task (pending, easy, 250 points, of that note) and appends its
\* id to the note's task list.
C8_CreateTaskStores ==
  (/\ last.op = "createTask"
   /\ last.body.name # ""
   /\ last.id \in DOMAIN last.pre.notes) =>
    /\ last.codes = <<201>>
    /\ \E t \in DOMAIN tasks \ DOMAIN last.pre.tasks :
         /\ tasks[t].status = "pending"
         /\ tasks[t].category = "easy"
         /\ tasks[t].points = 250
         /\ tasks[t].note = last.id
         /\ last.id \in DOMAIN notes
         /\ notes[last.id].tasks = Append(last.pre.notes[last.id].tasks, t)

\* C10: an update of a stored task whose category is none of easy, medium, hard
\* is answered with a client error and leaves the task's category and points
\* as they were.
C10_InvalidCategoryRejected ==
  (/\ last.op = "updateTask"
   /\ last.body.category \notin CategoryEnum \cup {""}
   /\ last.id \in DOMAIN last.pre.tasks) =>
    /\ Len(last.codes) = 1
    /\ last.codes[1] >= 400 /\ last.codes[1] < 500
    /\ last.id \in DOMAIN tasks
    /\ tasks[last.id].category = last.pre.tasks[last.id].category
    /\ tasks[last.id].points = last.pre.tasks[last.id].points

(***************************************************************************)
(* Claims on overlapping requests and on failures.                         *)
(***************************************************************************)
\* No handler is in flight.
Quiescent == \A s \in Slots : rq[s].op = "idle"

\* The store a single deleteTask(t) leaves, from the store st: t is gone and
\* its note's list is the list without t; nothing changes for a t not in st.
SingleDelete(st, t) ==
  IF t \notin DOMAIN st.tasks THEN st
  ELSE LET n == st.tasks[t].note IN
       [st EXCEPT
          !.tasks = [x \in DOMAIN st.tasks \ {t} |-> st.tasks[x]],
          !.notes = [m \in DOMAIN st.notes |->
                       IF m = n
                       THEN [st.notes[m] EXCEPT
                               !.tasks = SelectSeq(@, LAMBDA x : x # t)]
                       ELSE st.notes[m]]]

\* C11: when no request is in flight any more and the deleteTask(T) that
\* completed last overlapped with nothing but other deleteTask(T) requests,
\* in whatever order their find, pull and delete steps were taken, the store
\* is the store a single delete of T leaves from the store the request
\* started on: T is gone, its note's list lacks T, every other entry is where
\* it was; a deleteTask(T) delivered after T was deleted changes nothing.
C11_RepeatedDeleteIsSingleDelete ==
  (/\ Quiescent
   /\ last.op = "deleteTask"
   /\ \A p \in last.peers : p.op = "deleteTask" /\ p.id = last.id) =>
    /\ Store = SingleDelete(last.pre, last.id)
    /\ last.id \notin DOMAIN tasks
    /\ \A n \in DOMAIN notes : last.id \notin Range(notes[n].tasks)

\* Two deleteTask(T) overlapped, T being listed in a note with another task,
\* both have completed and the one that completed last had found T.
C11_Witness ==
  /\ Quiescent
  /\ last.op = "deleteTask" /\ last.codes = <<200>>
  /\ last.peers = {[op |-> "deleteTask", id |-> last.id, body |-> NoBody]}
  /\ last.id \in DOMAIN last.pre.tasks
  /\ last.id \in Range(last.pre.notes[last.pre.tasks[last.id].note].tasks)
  /\ Len(last.pre.notes[last.pre.tasks[last.id].note].tasks) >= 2

\* C13: updateTask for a task id that is no task of the store, with or without
\* a category in the payload, makes one call that sends a response, the 404,
\* and leaves the store as it was.
C13_NotFoundAnswersOnce ==
  (last.op = "updateTask" /\ last.id \notin DOMAIN last.pre.tasks) =>
    /\ last.codes = <<404>>
    /\ Store = last.pre

\* C12: deleteTask(T) for a task T of the store whose note id is no Note of
\* the store answers with a failure (500) and leaves the store as it was: T
\* is not deleted.
C12_OrphanDeleteFails ==
  (/\ last.op = "deleteTask"
   /\ last.id \in DOMAIN last.pre.tasks
   /\ last.pre.tasks[last.id].note \notin DOMAIN last.pre.notes) =>
    /\ last.codes = <<500>>
    /\ Store = last.pre
    /\ last.id \in DOMAIN tasks

\* A task had been given the id of a note that is not in the store, and a
\* deleteTask for it has completed.
C12_Witness ==
  /\ last.op = "deleteTask"
  /\ last.id \in DOMAIN last.pre.tasks
  /\ last.pre.tasks[last.id].note \notin DOMAIN last.pre.notes
  /\ Len(last.codes) = 1
  /\ last.doc = last.pre.tasks[last.id]

\* C14: when no request is in flight any more and the updatePet that
\* completed last, with delta d2, overlapped with exactly one other request,
\* an updatePet of the same pet with delta d1, the stored (level, points) is
\* what d1 and d2 applied one after the other (in one order or the other)
\* give from the pet the request started on.
C14_NoLostAward ==
  (/\ Quiescent
   /\ last.op = "updatePet" /\ last.codes = <<200>>
   /\ last.body.hasPoints
   /\ \E p \in last.peers :
        /\ last.peers = {p}
        /\ p.op = "updatePet" /\ p.id = last.id /\ p.body.hasPoints) =>
    LET p    == CHOOSE q \in last.peers : TRUE
        pet0 == last.pre.pets[last.id]
        d1   == p.body.points
        d2   == last.body.points
        a    == applyPoints(pet0.level, pet0.points, d1)
        b    == applyPoints(pet0.level, pet0.points, d2)
    IN  [level |-> pets[last.id].level, points |-> pets[last.id].points]
          \in {applyPoints(a.level, a.points, d2), applyPoints(b.level, b.points, d1)}

(***************************************************************************)
(* Leveling claims.                                                        *)
(***************************************************************************)
\* 0 <= points < requiredExperience(level), at a level >= 1
InLevelRange(level, points) ==
  /\ level >= 1
  /\ Ge(points, Zero)
  /\ Lt(points, calculateRequiredExp(level))

\* C1: after any sequence of updatePet calls from a pet at level 1 with 0
\* points, every stored pet has level >= 1 and
\* 0 <= points < requiredExperience(level).
C1_PetInLevelRange ==
  \A p \in DOMAIN pets : InLevelRange(pets[p].level, pets[p].points)

\* The leveling transformation ended at level 1 below zero: the floor case.
FloorCase(e) == e.level1 = 1 /\ Lt(e.points1, Zero)

\* C2: a pet at level 1 with points p >= 0 that is sent a delta <= -(p+1) is
\* stored at exactly level 1 with 0 points.
C2_LevelFloor ==
  petLog # <<>> =>
    LET e == petLog[Len(petLog)] IN
    (/\ e.level0 = 1
     /\ Ge(e.points0, Zero)
     /\ Ge(Neg(FromInt(e.delta)), AddExact(e.points0, FromInt(1))))
      => /\ e.level1 = 1 /\ e.points1 = Zero
         /\ pets[e.pet].level = 1 /\ pets[e.pet].points = Zero

\* C9: a delta d and then -d, applied to a pet at (l, p) with
\* 0 <= p < requiredExperience(l), return it to (l, p) unless one of the two
\* steps ends at level 1 below zero.
C9_RoundTrip ==
  Len(petLog) = 2 =>
    LET a == petLog[1]
        b == petLog[2]
    IN  (/\ a.pet = b.pet
         /\ b.delta = 0 - a.delta
         /\ b.level0 = a.level1 /\ b.points0 = a.points1
         /\ InLevelRange(a.level0, a.points0)
         /\ ~FloorCase(a) /\ ~FloorCase(b))
          => b.level1 = a.level0 /\ b.points1 = a.points0

====
